---- MODULE Spec2Model ----
(***************************************************************************)
(* llm2fs: a batch of file edits, read as JSON, is applied to the files    *)
(* below the working directory (src/main.rs).                              *)
(*                                                                         *)
(* Text is modelled as a sequence of one-character strings, a line as text *)
(* without a newline, a line list as a sequence of lines.  A file's        *)
(* content is its text (its bytes), never a line list: fs::read_to_string  *)
(* followed by str::lines and join("\n") followed by fs::write are         *)
(* modelled by what they do.                                               *)
(***************************************************************************)
EXTENDS Integers, Sequences, FiniteSets, TLC

VARIABLES
    files,      \* the file tree: location |-> content, for the files that exist
    dirs,       \* the locations that are directories
    input,      \* what main read from stdin: [parses, changes]
    audit,      \* whether llm2fs_changes/<timestamp>.txt has been written
    idx,        \* the position of the for loop of main in response.changes (1-based)
    pc,         \* "start", "loop", "done" (Ok), "failed" (Err), "panicked"
    log,        \* one entry per change the loop has reached: what it did
    file_lines, \* find_in_file_lines called on its own: first argument
    needle,     \* ... second argument
    found       \* ... what the call returned (NotCalled before the call)

vars == <<files, dirs, input, audit, idx, pc, log, file_lines, needle, found>>

----------------------------------------------------------------------------
(* Bounds of the model. *)

\* The longest file, in lines, of the initial file trees.
MaxFileLines == 2
\* The longest marker, insert or delete list, in lines.
MaxNeedleLines == 2
\* The longest batch, in changes.
MaxChanges == 2

----------------------------------------------------------------------------
(* Text. *)

NL == "\n"
CR == "\r"

Min(a, b) == IF a < b THEN a ELSE b

\* char::is_whitespace, on the characters the model uses.
IsWhitespace(c) == c \in {" ", "\t", NL, CR}

RECURSIVE TrimStart(_)
TrimStart(s) ==
    IF s # <<>> /\ IsWhitespace(Head(s)) THEN TrimStart(Tail(s)) ELSE s

RECURSIVE TrimEnd(_)
TrimEnd(s) ==
    IF s # <<>> /\ IsWhitespace(s[Len(s)])
    THEN TrimEnd(SubSeq(s, 1, Len(s) - 1))
    ELSE s

\* str::trim
Trim(s) == TrimEnd(TrimStart(s))

\* Iterator::map(|s| s.trim()) over a line list
TrimAll(ls) == [k \in 1..Len(ls) |-> Trim(ls[k])]

\* [String]::join(sep)
RECURSIVE Join(_, _)
Join(ls, sep) ==
    IF ls = <<>> THEN <<>>
    ELSE IF Len(ls) = 1 THEN ls[1]
    ELSE ls[1] \o sep \o Join(Tail(ls), sep)

\* One item of str::lines: a piece that ends with "\n" loses it, and then a
\* "\r" before it.
LinesMap(piece) ==
    IF piece # <<>> /\ piece[Len(piece)] = NL
    THEN LET l == SubSeq(piece, 1, Len(piece) - 1)
         IN  IF l # <<>> /\ l[Len(l)] = CR THEN SubSeq(l, 1, Len(l) - 1) ELSE l
    ELSE piece

\* str::split_inclusive('\n') mapped by LinesMap: cur is the piece being read.
RECURSIVE SplitLines(_, _)
SplitLines(s, cur) ==
    IF s = <<>> THEN (IF cur = <<>> THEN <<>> ELSE <<LinesMap(cur)>>)
    ELSE IF Head(s) = NL
         THEN <<LinesMap(cur \o <<NL>>)>> \o SplitLines(Tail(s), <<>>)
         ELSE SplitLines(Tail(s), cur \o <<Head(s)>>)

\* str::lines().map(String::from).collect()
Lines(s) == SplitLines(s, <<>>)

----------------------------------------------------------------------------
(* levenshtein_distance: the matrix is filled row by row; prev is row i, row *)
(* the part of row i+1 filled so far (matrix[i+1][0..Len(row)-1]).           *)

RECURSIVE LevRow(_, _, _, _)
LevRow(prev, c1, s2, row) ==
    IF Len(row) = Len(s2) + 1 THEN row
    ELSE LET j    == Len(row)
             cost == IF c1 = s2[j] THEN 0 ELSE 1
             cell == Min(Min(prev[j + 1] + 1, row[j] + 1), prev[j] + cost)
         IN  LevRow(prev, c1, s2, Append(row, cell))

RECURSIVE LevRows(_, _, _, _)
LevRows(s1, s2, i, prev) ==
    IF i > Len(s1) THEN prev
    ELSE LET row == LevRow(prev, s1[i], s2, <<i>>)
         IN  \* (the test makes TLC compute the row before it goes on)
             IF Len(row) > 0 THEN LevRows(s1, s2, i + 1, row) ELSE row

levenshtein_distance(s1, s2) ==
    LevRows(s1, s2, 1, [j \in 1..(Len(s2) + 1) |-> j - 1])[Len(s2) + 1]

----------------------------------------------------------------------------
(* find_in_file_lines *)

\* Option<usize>: Some(i) is i, None is NoMatch.
NoMatch == -1

\* usize::MAX, the first min_distance (any distance is below it).
UsizeMax == 2147483647

\* A variant of non_empty_needle that forgets the filter.
non_empty_needle_unfiltered(nd) == TrimAll(nd)

\* needle.iter().map(|s| s.trim()).filter(|s| !s.is_empty()).collect()
non_empty_needle(nd) == SelectSeq(TrimAll(nd), LAMBDA s : s # <<>>)

\* file_lines.windows(n): the number of windows (n > 0)
NumWindows(fl, n) == IF Len(fl) >= n THEN Len(fl) - n + 1 ELSE 0

\* window.iter().map(|s| s.trim()).collect().join("\n"), window i (0-based)
window_joined(fl, n, i) == Join(TrimAll(SubSeq(fl, i + 1, i + n)), <<NL>>)

\* The for loop over the windows, from window i on: the best match so far,
\* its distance, and the number of windows examined.
RECURSIVE ScanWindows(_, _, _, _, _, _, _)
ScanWindows(fl, n, needle_joined, i, best_match, min_distance, examined) ==
    IF i >= NumWindows(fl, n)
    THEN [best_match |-> best_match, min_distance |-> min_distance,
          examined |-> examined]
    ELSE LET distance == levenshtein_distance(needle_joined, window_joined(fl, n, i))
             better   == distance < min_distance
             best2    == IF better THEN i ELSE best_match
             min2     == IF better THEN distance ELSE min_distance
         IN  IF distance = 0
             THEN [best_match |-> best2, min_distance |-> min2,
                   examined |-> examined + 1]
             ELSE ScanWindows(fl, n, needle_joined, i + 1, best2, min2, examined + 1)

\* similarity >= 0.95, where similarity = 1.0 - (min_distance / needle_len) in
\* f64.  For the lengths a file can have the f64 comparison agrees with the
\* exact one, 20 * min_distance <= needle_len (1.0 - 1.0/20.0 is the double
\* 0.95).
MeetsThreshold(min_distance, needle_len) == 20 * min_distance <= needle_len

\* The call with what it examined: [index, examined].
FindWithCount(fl, nd) ==
    LET nen == non_empty_needle(nd)
    IN  IF nen = <<>> THEN [index |-> 0, examined |-> 0]
        ELSE LET needle_joined == Join(nen, <<NL>>)
                 needle_len    == Len(needle_joined)
                 scan == ScanWindows(fl, Len(nd), needle_joined, 0, NoMatch,
                                     UsizeMax, 0)
             IN  IF scan.best_match # NoMatch
                    /\ MeetsThreshold(scan.min_distance, needle_len)
                 THEN [index |-> scan.best_match, examined |-> scan.examined]
                 ELSE [index |-> NoMatch, examined |-> scan.examined]

find_in_file_lines(fl, nd) == FindWithCount(fl, nd).index

----------------------------------------------------------------------------
(* LineOrLines: Line(s) is [kind |-> "Line", v |-> s], Lines(v) is            *)
(* [kind |-> "Lines", v |-> v].                                                *)

Line(s) == [kind |-> "Line", v |-> s]

LinesOf(ls) == [kind |-> "Lines", v |-> ls]

\* LineOrLines::lines
lines(x) == IF x.kind = "Line" THEN <<x.v>> ELSE x.v

\* LineOrLines::len
len(x) == IF x.kind = "Line" THEN 1 ELSE Len(x.v)

----------------------------------------------------------------------------
(* Paths and the file tree.  A path is the sequence of its components       *)
(* (Path::components): "/" (the root, first only), ".", ".." or a name.  A  *)
(* location is where a path leads from the working directory: <<>> is the   *)
(* working directory, <<"..">> its parent, <<"/">> the root.                *)

RootDir == "/"
CurDir == "."
ParentDir == ".."

Cwd == <<>>

\* Path::is_relative
is_relative(path) == path = <<>> \/ path[1] # RootDir

\* Path::starts_with(".."): the first component is ".."
starts_with_parent(path) == path # <<>> /\ path[1] = ParentDir

is_file_in_current_directory(path) ==
    is_relative(path) /\ ~starts_with_parent(path)

\* Whether the path leads out of the working directory: it is absolute, or
\* some prefix of it has more ".." than names.
RECURSIVE Depths(_, _)
Depths(path, d) ==
    IF path = <<>> THEN {d}
    ELSE LET c  == Head(path)
             d2 == IF c = ParentDir THEN d - 1 ELSE IF c = CurDir THEN d ELSE d + 1
         IN  {d} \cup Depths(Tail(path), d2)

EscapesRoot(path) == ~is_relative(path) \/ \E d \in Depths(path, 0) : d < 0

ParentOf(loc) ==
    IF loc = <<RootDir>> THEN loc
    ELSE IF loc = <<>> \/ loc[Len(loc)] = ParentDir THEN Append(loc, ParentDir)
    ELSE SubSeq(loc, 1, Len(loc) - 1)

\* The working directory, its ancestors and the root exist; below them, the
\* directories of ds.
IsDir(loc, ds) ==
    \/ loc \in ds
    \/ loc = <<RootDir>>
    \/ \A k \in 1..Len(loc) : loc[k] = ParentDir

NoLoc == <<"?">>

\* The operating system's walk along the components: every component
\* walked through must be a directory.
RECURSIVE WalkFrom(_, _, _)
WalkFrom(loc, comps, ds) ==
    IF comps = <<>> THEN loc
    ELSE LET c    == Head(comps)
             next == IF c = CurDir THEN loc
                     ELSE IF c = ParentDir THEN ParentOf(loc)
                     ELSE Append(loc, c)
         IN  IF IsDir(next, ds) THEN WalkFrom(next, Tail(comps), ds) ELSE NoLoc

StartOf(path) == IF is_relative(path) THEN Cwd ELSE <<RootDir>>

RelOf(path) == IF is_relative(path) THEN path ELSE Tail(path)

\* The location a path names (its last component is a name), or NoLoc.
Resolve(path, ds) ==
    LET rel == RelOf(path)
        dir == WalkFrom(StartOf(path), SubSeq(rel, 1, Len(rel) - 1), ds)
    IN  IF rel = <<>> \/ dir = NoLoc THEN NoLoc ELSE Append(dir, rel[Len(rel)])

\* Path::exists
Exists(path, fs, ds) ==
    LET loc == Resolve(path, ds) IN loc # NoLoc /\ (loc \in DOMAIN fs \/ IsDir(loc, ds))

\* fs::create_dir_all(path.parent()): the directories it leaves, or Failed
\* when a file is in the way.
RECURSIVE MkdirAll(_, _, _, _)
MkdirAll(loc, comps, fs, ds) ==
    IF comps = <<>> THEN [ok |-> TRUE, dirs |-> ds]
    ELSE LET c    == Head(comps)
             next == IF c = CurDir THEN loc
                     ELSE IF c = ParentDir THEN ParentOf(loc)
                     ELSE Append(loc, c)
         IN  IF next \in DOMAIN fs THEN [ok |-> FALSE, dirs |-> ds]
             ELSE MkdirAll(next, Tail(comps), fs,
                           IF IsDir(next, ds) THEN ds ELSE ds \cup {next})

create_dir_all_parent(path, fs, ds) ==
    LET rel == RelOf(path)
    IN  MkdirAll(StartOf(path), SubSeq(rel, 1, Len(rel) - 1), fs, ds)

\* fs::write to an existing or new file of an existing directory
WriteFile(fs, loc, text) ==
    [l \in DOMAIN fs \cup {loc} |-> IF l = loc THEN text ELSE fs[l]]

RemoveFile(fs, loc) == [l \in DOMAIN fs \ {loc} |-> fs[l]]

\* fs::read_to_string(..).lines().collect(): the lines of an existing file
ReadOk(path, fs, ds) ==
    LET loc == Resolve(path, ds) IN loc # NoLoc /\ loc \in DOMAIN fs

ReadLines(path, fs, ds) == Lines(fs[Resolve(path, ds)])

----------------------------------------------------------------------------
(* The arms of the match on change.command.  Each gives what the arm leaves: *)
(* the file tree, the outcome ("ok", or the error main returns, or "panic"), *)
(* the lines it read and the index the locator returned.                     *)

Result(fs, ds, outcome, read, index) ==
    [files |-> fs, dirs |-> ds, outcome |-> outcome, read |-> read, index |-> index]

\* file_lines[a..b] (0-based, b exclusive); the callers check the range
Slice(ls, a, b) == SubSeq(ls, a + 1, b)

\* "Remove marker lines from insert_lines if they match"
EchoesMarker(ins, mk) ==
    /\ Len(ins) >= Len(mk)
    /\ TrimAll(SubSeq(ins, 1, Len(mk))) = TrimAll(mk)

\* A variant of StripEcho that compares the lines untrimmed.
StripEcho_untrimmed(ins, mk) ==
    IF Len(ins) >= Len(mk) /\ SubSeq(ins, 1, Len(mk)) = mk
    THEN SubSeq(ins, Len(mk) + 1, Len(ins))
    ELSE ins

StripEcho(ins, mk) ==
    IF EchoesMarker(ins, mk) THEN SubSeq(ins, Len(mk) + 1, Len(ins)) ELSE ins

\* A variant of CreateFileArm without the test of file_path.exists().
CreateFileArm_overwrites(ch, fs, ds) ==
    LET made == create_dir_all_parent(ch.filename, fs, ds)
        loc  == Resolve(ch.filename, made.dirs)
    IN  IF ~made.ok \/ loc = NoLoc \/ IsDir(loc, made.dirs)
        THEN Result(fs, made.dirs, "IoError", <<>>, NoMatch)
        ELSE Result(WriteFile(fs, loc, Join(lines(ch.new_lines), <<NL>>)),
                    made.dirs, "ok", <<>>, NoMatch)

CreateFileArm(ch, fs, ds) ==
    IF Exists(ch.filename, fs, ds)
    THEN Result(fs, ds, "AlreadyExists", <<>>, NoMatch)
    ELSE LET made == create_dir_all_parent(ch.filename, fs, ds)
             loc  == Resolve(ch.filename, made.dirs)
         IN  IF ~made.ok \/ loc = NoLoc
             THEN Result(fs, made.dirs, "IoError", <<>>, NoMatch)
             ELSE Result(WriteFile(fs, loc, Join(lines(ch.new_lines), <<NL>>)),
                         made.dirs, "ok", <<>>, NoMatch)

RenameFileArm(ch, fs, ds) ==
    LET from == Resolve(ch.filename, ds)
        to   == Resolve(ch.new_filename, ds)
    IN  IF from = NoLoc \/ from \notin DOMAIN fs \/ to = NoLoc \/ IsDir(to, ds)
        THEN Result(fs, ds, "IoError", <<>>, NoMatch)
        ELSE Result(WriteFile(RemoveFile(fs, from), to, fs[from]), ds, "ok",
                    <<>>, NoMatch)

DeleteFileArm(ch, fs, ds) ==
    LET loc == Resolve(ch.filename, ds)
    IN  IF loc = NoLoc \/ loc \notin DOMAIN fs
        THEN Result(fs, ds, "IoError", <<>>, NoMatch)
        ELSE Result(RemoveFile(fs, loc), ds, "ok", <<>>, NoMatch)

InsertBeforeArm(ch, fs, ds) ==
    IF ~ReadOk(ch.filename, fs, ds)
    THEN Result(fs, ds, "IoError", <<>>, NoMatch)
    ELSE LET fl    == ReadLines(ch.filename, fs, ds)
             index == find_in_file_lines(fl, lines(ch.marker_lines))
         IN  IF index = NoMatch
             THEN Result(fs, ds, "MarkerNotFound", fl, index)
             ELSE LET ins == StripEcho(lines(ch.insert_lines), lines(ch.marker_lines))
                      new_lines == Slice(fl, 0, index) \o ins
                                   \o Slice(fl, index, Len(fl))
                  IN  Result(WriteFile(fs, Resolve(ch.filename, ds),
                                       Join(new_lines, <<NL>>)),
                             ds, "ok", fl, index)

InsertAfterArm(ch, fs, ds) ==
    IF ~ReadOk(ch.filename, fs, ds)
    THEN Result(fs, ds, "IoError", <<>>, NoMatch)
    ELSE LET fl == ReadLines(ch.filename, fs, ds)
         IN  IF len(ch.marker_lines) = 0 /\ fl = <<>>
             THEN \* "This is the start of a new file"
                  Result(WriteFile(fs, Resolve(ch.filename, ds),
                                   Join(lines(ch.insert_lines), <<NL>>)),
                         ds, "ok", fl, NoMatch)
             ELSE LET index == find_in_file_lines(fl, lines(ch.marker_lines))
                      mk    == lines(ch.marker_lines)
                      ins   == StripEcho(lines(ch.insert_lines), mk)
                      end   == index + Len(mk)
                  IN  IF index = NoMatch
                      THEN Result(fs, ds, "MarkerNotFound", fl, index)
                      ELSE IF end = 0 \/ end > Len(fl)
                      THEN \* index + marker_lines.len() - 1 underflows, or
                           \* the range ..=end-1 ends past the slice
                           Result(fs, ds, "panic", fl, index)
                      ELSE Result(WriteFile(fs, Resolve(ch.filename, ds),
                                     Join(Slice(fl, 0, end) \o ins
                                          \o Slice(fl, end, Len(fl)), <<NL>>)),
                                  ds, "ok", fl, index)

\* A variant of DeleteArm that keeps the last line of the target.
DeleteArm_keeps_last(ch, fs, ds) ==
    IF ~ReadOk(ch.filename, fs, ds)
    THEN Result(fs, ds, "IoError", <<>>, NoMatch)
    ELSE LET fl    == ReadLines(ch.filename, fs, ds)
             start_index == find_in_file_lines(fl, lines(ch.delete_lines))
             end   == start_index + Len(lines(ch.delete_lines)) - 1
         IN  IF start_index = NoMatch
             THEN Result(fs, ds, "MarkerNotFound", fl, start_index)
             ELSE IF end > Len(fl) \/ end < start_index
             THEN Result(fs, ds, "panic", fl, start_index)
             ELSE Result(WriteFile(fs, Resolve(ch.filename, ds),
                            Join(Slice(fl, 0, start_index)
                                 \o Slice(fl, end, Len(fl)), <<NL>>)),
                         ds, "ok", fl, start_index)

DeleteArm(ch, fs, ds) ==
    IF ~ReadOk(ch.filename, fs, ds)
    THEN Result(fs, ds, "IoError", <<>>, NoMatch)
    ELSE LET fl    == ReadLines(ch.filename, fs, ds)
             start_index == find_in_file_lines(fl, lines(ch.delete_lines))
             end   == start_index + Len(lines(ch.delete_lines))
         IN  IF start_index = NoMatch
             THEN Result(fs, ds, "MarkerNotFound", fl, start_index)
             ELSE IF end > Len(fl)
             THEN \* the range start_index + len.. starts past the slice
                  Result(fs, ds, "panic", fl, start_index)
             ELSE Result(WriteFile(fs, Resolve(ch.filename, ds),
                            Join(Slice(fl, 0, start_index)
                                 \o Slice(fl, end, Len(fl)), <<NL>>)),
                         ds, "ok", fl, start_index)

----------------------------------------------------------------------------
(* main *)

\* What the loop records of the change it has just handled.
Entry(k, ch, r) ==
    [k |-> k, change |-> ch, outcome |-> r.outcome, before |-> files,
     dirs |-> dirs, after |-> r.files, read |-> r.read, index |-> r.index]

\* A variant of Handle that goes on to the next change after an error.
Handle_continues(r) ==
    /\ files' = r.files
    /\ dirs' = r.dirs
    /\ log' = Append(log, Entry(idx, input.changes[idx], r))
    /\ idx' = idx + 1
    /\ pc' = pc
    /\ UNCHANGED <<input, audit, file_lines, needle, found>>

\* One pass of the loop body that reaches the match: the arm's result r is
\* written back; an error (bail!, ?) returns from main, a panic unwinds.
Handle(r) ==
    /\ files' = r.files
    /\ dirs' = r.dirs
    /\ log' = Append(log, Entry(idx, input.changes[idx], r))
    /\ IF r.outcome = "ok" THEN idx' = idx + 1 /\ pc' = pc
       ELSE IF r.outcome = "panic" THEN idx' = idx /\ pc' = "panicked"
       ELSE idx' = idx /\ pc' = "failed"
    /\ UNCHANGED <<input, audit, file_lines, needle, found>>

\* The loop is at a change that passed the containment check.
AtCommand(c) ==
    /\ pc = "loop"
    /\ idx <= Len(input.changes)
    /\ is_file_in_current_directory(input.changes[idx].filename)
    /\ input.changes[idx].command = c

\* main up to the loop: the payload is saved, then parsed.
Start ==
    /\ pc = "start"
    /\ audit' = TRUE
    /\ pc' = IF input.parses THEN "loop" ELSE "failed"
    /\ UNCHANGED <<files, dirs, input, idx, log, file_lines, needle, found>>

\* "Warning: Filename ... is outside the current directory. Skipping."
Skip ==
    /\ pc = "loop"
    /\ idx <= Len(input.changes)
    /\ ~is_file_in_current_directory(input.changes[idx].filename)
    /\ log' = Append(log, Entry(idx, input.changes[idx],
                                Result(files, dirs, "skipped", <<>>, NoMatch)))
    /\ idx' = idx + 1
    /\ UNCHANGED <<files, dirs, input, audit, pc, file_lines, needle, found>>

CreateFile ==
    /\ AtCommand("CREATE_FILE")
    /\ Handle(CreateFileArm(input.changes[idx], files, dirs))

RenameFile ==
    /\ AtCommand("RENAME_FILE")
    /\ Handle(RenameFileArm(input.changes[idx], files, dirs))

DeleteFile ==
    /\ AtCommand("DELETE_FILE")
    /\ Handle(DeleteFileArm(input.changes[idx], files, dirs))

InsertBefore ==
    /\ AtCommand("INSERT_BEFORE")
    /\ Handle(InsertBeforeArm(input.changes[idx], files, dirs))

InsertAfter ==
    /\ AtCommand("INSERT_AFTER")
    /\ Handle(InsertAfterArm(input.changes[idx], files, dirs))

Delete ==
    /\ AtCommand("DELETE")
    /\ Handle(DeleteArm(input.changes[idx], files, dirs))

\* The loop is over: the conclusion is printed and main returns Ok.
Finish ==
    /\ pc = "loop"
    /\ idx > Len(input.changes)
    /\ pc' = "done"
    /\ UNCHANGED <<files, dirs, input, audit, idx, log, file_lines, needle, found>>

Next ==
    \/ Start
    \/ Skip
    \/ CreateFile
    \/ RenameFile
    \/ DeleteFile
    \/ InsertBefore
    \/ InsertAfter
    \/ Delete
    \/ Finish

----------------------------------------------------------------------------
(* The inputs: payloads and initial file trees. *)

\* Text from a TLA+ tuple of characters, for readability of the pools.
Blank == <<>>
Space == <<" ">>
A == <<"a">>
IndentedA == <<" ", "a">>
B == <<"b">>

SeqsUpTo(S, n) == UNION {[1..k -> S] : k \in 0..n}

\* File contents: lines joined by "\n", ending with or without a line end,
\* and one file with "\r\n" line ends.
TextsOver(S, n) ==
    {Join(ls, <<NL>>) \o e : ls \in SeqsUpTo(S, n), e \in {<<>>, <<NL>>}}
    \cup {A \o <<CR, NL>> \o B \o <<CR, NL>>}

NotCalled == [called |-> FALSE, index |-> NoMatch, examined |-> 0]

InitWith(trees, payloads) ==
    /\ \E t \in trees : files = t.files /\ dirs = t.dirs
    /\ input \in payloads
    /\ audit = FALSE
    /\ idx = 1
    /\ pc = "start"
    /\ log = <<>>
    /\ file_lines = <<>>
    /\ needle = <<>>
    /\ found = NotCalled

Parsed(chs) == [parses |-> TRUE, changes |-> chs]

\* A payload serde_json rejects.
Malformed == [parses |-> FALSE, changes |-> <<>>]

CreateFileOf(f, nl) == [filename |-> f, command |-> "CREATE_FILE", new_lines |-> nl]

RenameFileOf(f, g) == [filename |-> f, command |-> "RENAME_FILE", new_filename |-> g]

DeleteFileOf(f) == [filename |-> f, command |-> "DELETE_FILE"]

InsertBeforeOf(f, ins, mk) ==
    [filename |-> f, command |-> "INSERT_BEFORE", insert_lines |-> ins,
     marker_lines |-> mk]

InsertAfterOf(f, ins, mk) ==
    [filename |-> f, command |-> "INSERT_AFTER", insert_lines |-> ins,
     marker_lines |-> mk]

DeleteOf(f, dl) == [filename |-> f, command |-> "DELETE", delete_lines |-> dl]

(* The batch: short batches of all six commands over paths inside and       *)
(* outside the working directory.                                            *)

X == <<"x">>
AX == <<"a", "x">>
UpX == <<ParentDir, "x">>
DownUpUpX == <<"a", ParentDir, ParentDir, "x">>
AbsX == <<RootDir, "x">>
DotUpX == <<CurDir, ParentDir, "x">>

BatchPaths == {X, AX, UpX, DownUpUpX, AbsX, DotUpX}

BatchChanges ==
    UNION {{CreateFileOf(f, LinesOf(<<B>>)),
            RenameFileOf(f, <<"y">>),
            DeleteFileOf(f),
            InsertBeforeOf(f, Line(B), Line(A)),
            InsertAfterOf(f, Line(B), LinesOf(<<>>)),
            DeleteOf(f, Line(A))} : f \in BatchPaths}

BatchTrees ==
    {[files |-> <<>>, dirs |-> {}],
     [files |-> [l \in {X, UpX} |-> A \o <<NL>>], dirs |-> {}],
     [files |-> [l \in {X, AX, UpX, AbsX} |-> <<>>], dirs |-> {<<"a">>}]}

Init ==
    InitWith(BatchTrees,
             {Parsed(chs) : chs \in SeqsUpTo(BatchChanges, MaxChanges)}
                 \cup {Malformed})

Spec == Init /\ [][Next]_vars

(* The edits: one file, one line edit of it, over every marker, insert and   *)
(* file of the pools; an INSERT_AFTER is followed by the DELETE of what it   *)
(* inserted.                                                                 *)

F == <<"f">>

EditFileLines == {Blank, A, B}

MarkerLines == {Blank, IndentedA, B}

InsertLines == {Blank, A}

Markers ==
    {LinesOf(ls) : ls \in SeqsUpTo(MarkerLines, MaxNeedleLines)}
    \cup {Line(l) : l \in MarkerLines}

Inserts == {LinesOf(ls) : ls \in SeqsUpTo(InsertLines, MaxNeedleLines)}

EditPayloads ==
    {Parsed(<<InsertAfterOf(F, ins, mk), DeleteOf(F, ins)>>) :
        ins \in Inserts, mk \in Markers}
    \cup {Parsed(<<InsertBeforeOf(F, ins, mk)>>) : ins \in Inserts, mk \in Markers}
    \cup {Parsed(<<DeleteOf(F, dl)>>) : dl \in Markers}
    \cup {Parsed(<<DeleteFileOf(F), CreateFileOf(F, nl), RenameFileOf(F, <<"g">>)>>) :
            nl \in Inserts}
    \cup {Parsed(<<DeleteOf(UpX, Line(A))>>), Malformed}

EditTrees ==
    {[files |-> [l \in {F} |-> t], dirs |-> {}] :
        t \in TextsOver(EditFileLines, MaxFileLines)}

InitEdit == InitWith(EditTrees, EditPayloads)

SpecEdit == InitEdit /\ [][Next]_vars

(* find_in_file_lines called on its own.                                     *)

Locate ==
    /\ ~found.called
    /\ found' = [called |-> TRUE] @@ FindWithCount(file_lines, needle)
    /\ UNCHANGED <<files, dirs, input, audit, idx, pc, log, file_lines, needle>>

NextLocator == Locate

LocatorLines == {Blank, Space, A, IndentedA, B}

InitLocatorOver(S) ==
    /\ files = <<>>
    /\ dirs = {}
    /\ input = Malformed
    /\ audit = FALSE
    /\ idx = 1
    /\ pc = "start"
    /\ log = <<>>
    /\ file_lines \in SeqsUpTo(S, MaxFileLines)
    /\ needle \in SeqsUpTo(S, MaxNeedleLines)
    /\ found = NotCalled

InitLocator == InitLocatorOver(LocatorLines)

SpecLocator == InitLocator /\ [][NextLocator]_vars

(* find_in_file_lines at the threshold: needles of 19 and 20 characters and *)
(* windows one substitution away from them.                                  *)

Long(n) == [k \in 1..n |-> "a"]

OneOff(n) == [Long(n) EXCEPT ![2] = "b"]

ThresholdLines == {Blank, A, Long(19), OneOff(19), Long(20), OneOff(20)}

InitThreshold == InitLocatorOver(ThresholdLines)

SpecThreshold == InitThreshold /\ [][NextLocator]_vars

----------------------------------------------------------------------------
(* What the claims speak of. *)

\* A line list whose lines are all blank or whitespace-only (or that is empty).
AllBlank(ls) == \A k \in 1..Len(ls) : Trim(ls[k]) = <<>>

SetMin(S) == CHOOSE x \in S : \A y \in S : x <= y

\* The offsets of the windows of fl that have the length of nd.
WindowOffsets(fl, nd) == 0..(Len(fl) - Len(nd))

\* The normalisation of the spec: every line trimmed, the lines joined by "\n".
Normalized(ls) == Join(TrimAll(ls), <<NL>>)

Window(fl, nd, i) == SubSeq(fl, i + 1, i + Len(nd))

\* The offsets of the windows equal to nd after trimming each line.
EqualWindows(fl, nd) ==
    {i \in WindowOffsets(fl, nd) : TrimAll(Window(fl, nd, i)) = TrimAll(nd)}

WindowDistance(fl, nd, i) ==
    levenshtein_distance(Normalized(nd), Normalized(Window(fl, nd, i)))

LogEntries == {log[j] : j \in 1..Len(log)}

\* The change reached the match (it passed the containment check).
Reached(e) == is_file_in_current_directory(e.change.filename)

\* The file the change names existed when the change was reached.
FileExisted(e) == ReadOk(e.change.filename, e.before, e.dirs)

LocOf(e) == Resolve(e.change.filename, e.dirs)

ContentBefore(e) == e.before[LocOf(e)]

ContentAfter(e) == e.after[LocOf(e)]

\* insert with its leading lines removed when they repeat the marker.
WithoutEcho(ins, mk) ==
    IF Len(ins) >= Len(mk) /\ \A k \in 1..Len(mk) : Trim(ins[k]) = Trim(mk[k])
    THEN SubSeq(ins, Len(mk) + 1, Len(ins))
    ELSE ins

----------------------------------------------------------------------------
(* The locator. *)

\* C1: a needle with a non-blank line that equals, line by line after
\* trimming, some window of file_lines is found at the leftmost such window.
C1_LeftmostEqualWindow ==
    (found.called /\ ~AllBlank(needle) /\ EqualWindows(file_lines, needle) # {})
        => found.index = SetMin(EqualWindows(file_lines, needle))

\* C1 for the needles without a blank line: they are found at the leftmost
\* equal window.
C1_LeftmostEqualWindowNoBlankLine ==
    (/\ found.called
     /\ \A k \in 1..Len(needle) : Trim(needle[k]) # <<>>
     /\ EqualWindows(file_lines, needle) # {})
        => found.index = SetMin(EqualWindows(file_lines, needle))

\* C10: an empty or all-blank needle is found at index 0 in every file, and
\* no window is examined.
C10_BlankNeedleAtZero ==
    (found.called /\ AllBlank(needle)) => (found.index = 0 /\ found.examined = 0)

\* A blank needle longer than the file has been located.
C10_Witness ==
    /\ found.called
    /\ needle # <<>>
    /\ AllBlank(needle)
    /\ Len(file_lines) < Len(needle)
    /\ found.index = 0

\* What C5 says the locator returns for a needle with a non-blank line:
\* d is the least distance of a window to the needle, i the first offset
\* that reaches it, n the length of the normalised needle.
ThresholdAnswer(fl, nd) ==
    IF WindowOffsets(fl, nd) = {} THEN NoMatch
    ELSE LET d == SetMin({WindowDistance(fl, nd, i) : i \in WindowOffsets(fl, nd)})
             i == SetMin({k \in WindowOffsets(fl, nd) : WindowDistance(fl, nd, k) = d})
         IN  IF 20 * d <= Len(Normalized(nd)) THEN i ELSE NoMatch

\* C5: the best window is returned when its distance is at most 5% of the
\* needle's length, and nothing otherwise or when there is no window.
C5_Threshold ==
    (found.called /\ ~AllBlank(needle))
        => found.index = ThresholdAnswer(file_lines, needle)

\* C5 for the needles without a blank line.
C5_ThresholdNoBlankLine ==
    (found.called /\ needle # <<>> /\ \A k \in 1..Len(needle) : Trim(needle[k]) # <<>>)
        => found.index = ThresholdAnswer(file_lines, needle)

----------------------------------------------------------------------------
(* The line edits. *)

\* C2: INSERT_AFTER on a file of zero lines with a marker that is empty
\* after the blank lines are dropped succeeds and leaves the lines of insert.
C2_InsertAfterIntoEmptyFile ==
    \A e \in LogEntries :
        (/\ e.change.command = "INSERT_AFTER"
         /\ Reached(e) /\ FileExisted(e)
         /\ Lines(ContentBefore(e)) = <<>>
         /\ AllBlank(lines(e.change.marker_lines)))
            => /\ e.outcome = "ok"
               /\ ContentAfter(e) = Join(lines(e.change.insert_lines), <<NL>>)

\* C6: DELETE either removes exactly the len(target) lines at the index the
\* locator returns, or the locator finds nothing and DELETE fails with
\* MarkerNotFound and leaves the file as it was; nothing else happens.
C6_DeleteTotalAndExact ==
    \A e \in LogEntries :
        (e.change.command = "DELETE" /\ Reached(e) /\ FileExisted(e))
            => LET fl == Lines(ContentBefore(e))
                   t  == lines(e.change.delete_lines)
                   i  == find_in_file_lines(fl, t)
               IN  \/ /\ i # NoMatch
                      /\ e.outcome = "ok"
                      /\ i + Len(t) <= Len(fl)
                      /\ ContentAfter(e) =
                           Join(SubSeq(fl, 1, i) \o SubSeq(fl, i + Len(t) + 1, Len(fl)),
                                <<NL>>)
                   \/ /\ i = NoMatch
                      /\ e.outcome = "MarkerNotFound"
                      /\ e.after = e.before

\* C7: when the locator returns i for the marker, INSERT_BEFORE writes
\* lines[0..i] ++ insert' ++ lines[i..], insert' being insert without its
\* leading echo of the marker; no other file changes.
C7_InsertBeforeSplice ==
    \A e \in LogEntries :
        (/\ e.change.command = "INSERT_BEFORE"
         /\ Reached(e) /\ FileExisted(e)
         /\ find_in_file_lines(Lines(ContentBefore(e)), lines(e.change.marker_lines))
                # NoMatch)
            => LET fl == Lines(ContentBefore(e))
                   i  == find_in_file_lines(fl, lines(e.change.marker_lines))
                   ins == WithoutEcho(lines(e.change.insert_lines),
                                      lines(e.change.marker_lines))
               IN  /\ e.outcome = "ok"
                   /\ ContentAfter(e) =
                        Join(SubSeq(fl, 1, i) \o ins \o SubSeq(fl, i + 1, Len(fl)), <<NL>>)
                   /\ DOMAIN e.after = DOMAIN e.before
                   /\ \A l \in DOMAIN e.before \ {LocOf(e)} : e.after[l] = e.before[l]

\* An INSERT_BEFORE below the first line has dropped the echo of a marker of
\* at least one line and inserted the rest.
C7_Witness ==
    \E e \in LogEntries :
        /\ e.change.command = "INSERT_BEFORE"
        /\ e.outcome = "ok"
        /\ e.index >= 1
        /\ Len(lines(e.change.marker_lines)) >= 1
        /\ Len(lines(e.change.insert_lines)) > Len(lines(e.change.marker_lines))
        /\ WithoutEcho(lines(e.change.insert_lines), lines(e.change.marker_lines))
               # lines(e.change.insert_lines)
        /\ lines(e.change.insert_lines)[1] # lines(e.change.marker_lines)[1]

\* Change j+1 of the batch is the DELETE of what the INSERT_AFTER that is
\* change j inserts, in the same file.
IsRoundTrip(j) ==
    /\ j + 1 <= Len(input.changes)
    /\ log[j].change.command = "INSERT_AFTER"
    /\ Reached(log[j]) /\ FileExisted(log[j])
    /\ input.changes[j + 1] =
         DeleteOf(log[j].change.filename, log[j].change.insert_lines)

\* The locator matches the marker of e exactly in the file e found.
MatchedExactly(e) ==
    LET fl == Lines(ContentBefore(e))
        mk == lines(e.change.marker_lines)
    IN  /\ Len(mk) >= 1
        /\ find_in_file_lines(fl, mk) \in EqualWindows(fl, mk)

PlainText(t) ==
    /\ t = Join(Lines(t), <<NL>>)
    /\ \A k \in 1..Len(t) : t[k] # CR

NoLineBreak(ls) == \A k \in 1..Len(ls) : \A c \in 1..Len(ls[k]) : ls[k][c] \notin {NL, CR}

\* The cases of the round trip in which it holds: the file is plain text, I
\* has no line break and does not start with an echo of the marker, and the
\* locator finds I, in the file INSERT_AFTER wrote, where it was inserted.
RoundTripCase(j) ==
    /\ IsRoundTrip(j)
    /\ MatchedExactly(log[j])
    /\ Len(log) > j
    /\ PlainText(ContentBefore(log[j]))
    /\ NoLineBreak(lines(log[j].change.insert_lines))
    /\ WithoutEcho(lines(log[j].change.insert_lines), lines(log[j].change.marker_lines))
         = lines(log[j].change.insert_lines)
    /\ find_in_file_lines(Lines(ContentAfter(log[j])), lines(log[j].change.insert_lines))
         = find_in_file_lines(Lines(ContentBefore(log[j])), lines(log[j].change.marker_lines))
           + Len(lines(log[j].change.marker_lines))

----------------------------------------------------------------------------
(* The batch. *)

\* C4: a change whose path is absolute or leads out of the working directory
\* through ".." anywhere in it is rejected before it has any effect: no file
\* is created, written, renamed or removed for it.  (The claim adds that the
\* change is skipped with a warning; a change with an effect is not.)
C4_EscapingPathHasNoEffect ==
    \A e \in LogEntries :
        EscapesRoot(e.change.filename) => e.after = e.before

\* C8: CREATE_FILE on a path that exists fails with AlreadyExists and leaves
\* every file as it was, wherever it stands in the batch.
C8_CreateFileKeepsExisting ==
    \A e \in LogEntries :
        (/\ e.change.command = "CREATE_FILE"
         /\ Reached(e)
         /\ Exists(e.change.filename, e.before, e.dirs))
            => (e.outcome = "AlreadyExists" /\ e.after = e.before)

\* A CREATE_FILE that is not the first change of its batch found a file with
\* content and failed.
C8_Witness ==
    \E e \in LogEntries :
        /\ e.k >= 2
        /\ e.change.command = "CREATE_FILE"
        /\ e.outcome = "AlreadyExists"
        /\ ContentBefore(e) # <<>>
        /\ ContentBefore(e) # Join(lines(e.change.new_lines), <<NL>>)

Ended == pc \in {"done", "failed", "panicked"}

\* C9: when a run whose payload parses ends, every change has been attempted
\* once, in payload order.
C9_EveryChangeAttempted ==
    (input.parses /\ Ended)
        => /\ Len(log) = Len(input.changes)
           /\ \A j \in 1..Len(log) : log[j].k = j /\ log[j].change = input.changes[j]

\* C9 as amended: the changes are attempted in payload order, each at most
\* once and only after every change before it succeeded or was skipped; the
\* run ends Ok only when all have been attempted, and otherwise with the
\* first change that fails, the changes after it unattempted.
C9_InOrderUntilFirstFailure ==
    /\ Len(log) <= Len(input.changes)
    /\ \A j \in 1..Len(log) :
        /\ log[j].k = j
        /\ log[j].change = input.changes[j]
        /\ j < Len(log) => log[j].outcome \in {"ok", "skipped"}
    /\ pc = "loop" => idx = Len(log) + 1
    /\ pc = "done"
         => /\ Len(log) = Len(input.changes)
            /\ \A j \in 1..Len(log) : log[j].outcome \in {"ok", "skipped"}
    /\ (input.parses /\ pc \in {"failed", "panicked"})
         => /\ log # <<>>
            /\ log[Len(log)].outcome \notin {"ok", "skipped"}
    /\ ~input.parses => log = <<>>

\* A run has ended with a failure of a change, the changes after it
\* unattempted.
C9_Witness ==
    /\ pc = "failed"
    /\ log # <<>>
    /\ Len(log) < Len(input.changes)

====
